---- MODULE Spec2Model ----
(***************************************************************************)
(* Model of dhdynupdate: the dhdns reconciliation engine (src/dhdns.py)    *)
(* driven by the main program (src/dhdynupdate.py).                        *)
(*                                                                         *)
(* Python lists are modelled as sequences; Python's 0-based indexes are    *)
(* shifted by one (index k of the source is position k+1 here).            *)
(***************************************************************************)
EXTENDS Integers, Sequences, FiniteSets, TLC

VARIABLES
    mode,                    \* "daemon" (args.daemonize) or "single"
    use_external,            \* self.use_external
    external_ip,             \* self.external_ip (fetched once in __init__)
    global_v4,               \* module global previous_v4_address (text)
    global_v6,               \* module global previous_v6_address (text)
    prev_addr_file,          \* the two lines of the previous-address file
    previous_v4_address,     \* self.previous_v4_address
    previous_v6_address,     \* self.previous_v6_address
    prev_addresses,          \* self.prev_addresses: the cache before the last change
    addresses,               \* self.interface.addresses
    dns,                     \* the provider's records, in listing order
    pc,                      \* position of the process
    exit_code,               \* process exit status once pc = "exited"
    exit_reason,             \* why the process ended
    cycle,                   \* completed iterations of the poll loop
    polled,                  \* what get_if_addresses returned in this cycle
    desired,                 \* the address list the cycle compared (after override)
    listing,                 \* what the list call of this pass returned
    calls,                   \* provider calls issued in this cycle, in order
    remove_queue,            \* remove calls the editable pass still has to issue
    value_error,             \* the editable pass ends in a ValueError
    matching_address_index,  \* matching_address_index of update_addresses
    add_index                \* position of the add loop in self.interface.addresses

vars == <<mode, use_external, external_ip, global_v4, global_v6, prev_addr_file,
          previous_v4_address, previous_v6_address, prev_addresses, addresses,
          dns, pc, exit_code, exit_reason, cycle, polled, desired, listing,
          calls, remove_queue, value_error, matching_address_index, add_index>>

(***************************************************************************)
(* Bounds                                                                  *)
(***************************************************************************)
MaxAddrs == 3       \* longest address list get_if_addresses returns
MaxRecs == 2        \* longest initial provider listing
MaxCycles == 2      \* poll cycles of one process

(***************************************************************************)
(* Addresses: ipaddress.ip_address parses a text into (version, packed).   *)
(***************************************************************************)
local_hostname == "home.example.com"
other_hostname == "www.example.com"

V4Texts == {"1.2.3.4", "5.6.7.8"}
V6Texts == {"2001:db8::1"}
NonAddressTexts == {"v=spf1 -all"}
\* an address the host held long ago
StaleTexts == {"2001:db8::9"}
\* values of the provider's own (read-only) records
ProviderTexts == {"9.9.9.9", "2001:db8::9", "v=spf1 -all"}

InvalidAddress == [version |-> 0, packed |-> 0]

ip_address(text) ==
    CASE text = "127.0.0.1" -> [version |-> 4, packed |-> 0]
      [] text = "1.2.3.4" -> [version |-> 4, packed |-> 1]
      [] text = "5.6.7.8" -> [version |-> 4, packed |-> 2]
      [] text = "::1" -> [version |-> 6, packed |-> 0]
      [] text = "2001:db8::1" -> [version |-> 6, packed |-> 1]
      [] text = "9.9.9.9" -> [version |-> 4, packed |-> 9]
      [] text = "2001:db8::9" -> [version |-> 6, packed |-> 9]
      [] OTHER -> InvalidAddress

compressed(address) ==
    CASE address = [version |-> 4, packed |-> 0] -> "127.0.0.1"
      [] address = [version |-> 4, packed |-> 1] -> "1.2.3.4"
      [] address = [version |-> 4, packed |-> 2] -> "5.6.7.8"
      [] address = [version |-> 6, packed |-> 0] -> "::1"
      [] address = [version |-> 6, packed |-> 1] -> "2001:db8::1"
      [] address = [version |-> 4, packed |-> 9] -> "9.9.9.9"
      [] address = [version |-> 6, packed |-> 9] -> "2001:db8::9"
      [] OTHER -> ""

HostAddresses == {ip_address(t) : t \in V4Texts \cup V6Texts}

RECURSIVE SeqsUpTo(_, _)
SeqsUpTo(S, n) ==
    IF n = 0 THEN {<<>>}
    ELSE LET shorter == SeqsUpTo(S, n - 1)
         IN shorter \cup {Append(s, x) : s \in {t \in shorter : Len(t) = n - 1}, x \in S}

\* an interface table holds no address twice
NoRepeat(list) == \A i, j \in 1..Len(list) : list[i] = list[j] => i = j

AddressLists == {list \in SeqsUpTo(HostAddresses, MaxAddrs) : NoRepeat(list)}

(***************************************************************************)
(* Provider records                                                        *)
(***************************************************************************)
TypeOfText(text) ==
    IF ip_address(text).version = 4 THEN "A"
    ELSE IF ip_address(text).version = 6 THEN "AAAA"
    ELSE "TXT"

DnsRecord(h, t, e) ==
    [record |-> h, type |-> TypeOfText(t), value |-> t, editable |-> e]

\* records of the configured hostname this client may edit
EditableRecords ==
    {DnsRecord(local_hostname, t, "1") :
        t \in V4Texts \cup V6Texts \cup StaleTexts \cup NonAddressTexts}

\* records of the configured hostname the provider manages itself
ReadOnlyRecords == {DnsRecord(local_hostname, t, "0") : t \in ProviderTexts}

\* records of another hostname of the same account
OtherRecords ==
    {DnsRecord(other_hostname, "1.2.3.4", "1"), DnsRecord(other_hostname, "9.9.9.9", "0")}

DnsRecords == EditableRecords \cup ReadOnlyRecords \cup OtherRecords

Listings == SeqsUpTo(DnsRecords, MaxRecs)

(***************************************************************************)
(* Python list primitives                                                  *)
(***************************************************************************)
\* list.index(x): position of the first element equal to x
index(list, x) ==
    CHOOSE i \in 1..Len(list) : list[i] = x /\ \A j \in 1..(i - 1) : list[j] # x

\* del list[i]
DelAt(list, i) == SubSeq(list, 1, i - 1) \o SubSeq(list, i + 1, Len(list))

\* for index in idxs: del list[index]   (IndexError when out of range)
RECURSIVE DelEach(_, _)
DelEach(list, idxs) ==
    IF idxs = <<>> THEN [addresses |-> list, raised |-> FALSE]
    ELSE IF Head(idxs) > Len(list) THEN [addresses |-> list, raised |-> TRUE]
    ELSE DelEach(DelAt(list, Head(idxs)), Tail(idxs))

Max(S) == CHOOSE m \in S : \A x \in S : x <= m

\* sorted(idxs, reverse=True)
RECURSIVE SortedReverse(_)
SortedReverse(idxs) ==
    IF idxs = <<>> THEN <<>>
    ELSE LET m == Max({idxs[i] : i \in 1..Len(idxs)})
             k == index(idxs, m)
         IN <<m>> \o SortedReverse(DelAt(idxs, k))

(***************************************************************************)
(* update_if_necessary: override and change detection                      *)
(***************************************************************************)
\* mutant: the addresses stay as the source returned them
ExternalOverrideNothing(addrs, ext) == addrs

\* lines 107-112: every IPv4 entry becomes the external address
ExternalOverride(addrs, ext) ==
    [i \in 1..Len(addrs) |-> IF addrs[i].version = 4 THEN ext ELSE addrs[i]]

\* mutant: every address counts as changed
CompareStepAlwaysChanged(st, naddress, prev4, prev6) ==
    IF naddress.version = 4
    THEN [st EXCEPT !.update_ipv4 = TRUE, !.new_v4_address = naddress]
    ELSE [st EXCEPT !.update_ipv6 = TRUE, !.new_v6_address = naddress]

\* mutant: the version of the address is not looked at
CompareStepAnyVersion(st, naddress, prev4, prev6) ==
    IF prev4 # naddress
    THEN [st EXCEPT !.update_ipv4 = TRUE, !.new_v4_address = naddress]
    ELSE st

\* lines 114-127: one iteration of the comparison loop
CompareStep(st, naddress, prev4, prev6) ==
    IF naddress.version = 4
    THEN IF prev4 # naddress
         THEN [st EXCEPT !.update_ipv4 = TRUE, !.new_v4_address = naddress]
         ELSE st
    ELSE IF naddress.version = 6
    THEN IF prev6 # naddress
         THEN [st EXCEPT !.update_ipv6 = TRUE, !.new_v6_address = naddress]
         ELSE st
    ELSE st

RECURSIVE CompareLoop(_, _, _, _)
CompareLoop(st, addrs, prev4, prev6) ==
    IF addrs = <<>> THEN st
    ELSE CompareLoop(CompareStep(st, Head(addrs), prev4, prev6), Tail(addrs), prev4, prev6)

\* lines 94-97 and 114-127
DetectChanges(addrs, prev4, prev6) ==
    CompareLoop([update_ipv4 |-> FALSE, update_ipv6 |-> FALSE,
                 new_v4_address |-> prev4, new_v6_address |-> prev6],
                addrs, prev4, prev6)

(***************************************************************************)
(* get_dh_dns_records: filter of the listing and the read-only pass        *)
(***************************************************************************)
\* mutant: the editable flag is not looked at
IsTargetRecordAnyFlag(entry) == entry.record = local_hostname

\* lines 162-169: the entry is appended to target_records
IsTargetRecord(entry) ==
    entry.editable = "1" /\ entry.record = local_hostname

\* mutant: the record name of a read-only entry is not looked at
IsReadOnlyOfAnyHost(entry) == entry.editable # "1"

\* lines 170-173: a read-only entry of the configured hostname
IsReadOnlyOfHost(entry) ==
    entry.editable # "1" /\ entry.record = local_hostname

\* lines 176-180: readonly_index collected for one read-only entry
ReadonlyIndex(addrs, dh_addr) ==
    LET hits == SelectSeq(addrs, LAMBDA addr : addr.version = dh_addr.version)
    IN [i \in 1..Len(hits) |-> index(addrs, hits[i])]

\* lines 175-182: one read-only entry (ValueError, IndexError as raised)
SuppressReadOnly(entry, addrs) ==
    LET dh_addr == ip_address(entry.value)
    IN IF dh_addr = InvalidAddress
       THEN [addresses |-> addrs, raised |-> TRUE]
       ELSE DelEach(addrs, ReadonlyIndex(addrs, dh_addr))

\* lines 159-183: the loop over the listing
RECURSIVE get_dh_dns_records(_, _, _)
get_dh_dns_records(dns_records, target_records, addrs) ==
    IF dns_records = <<>>
    THEN [target_records |-> target_records, addresses |-> addrs, raised |-> FALSE]
    ELSE LET entry == Head(dns_records)
         IN IF IsTargetRecord(entry)
            THEN get_dh_dns_records(Tail(dns_records), Append(target_records, entry), addrs)
            ELSE IF IsReadOnlyOfHost(entry)
            THEN LET r == SuppressReadOnly(entry, addrs)
                 IN IF r.raised
                    THEN [target_records |-> target_records,
                          addresses |-> r.addresses, raised |-> TRUE]
                    ELSE get_dh_dns_records(Tail(dns_records), target_records, r.addresses)
            ELSE get_dh_dns_records(Tail(dns_records), target_records, addrs)

(***************************************************************************)
(* remove_old_records and the editable pass of update_addresses            *)
(***************************************************************************)
\* mutant: the IP versions are not compared
RemovesForAnyVersion(addr, dh_addr) == addr # dh_addr

\* lines 195-203: the entry is removed on account of this address
RemovesFor(addr, dh_addr) ==
    addr.version = dh_addr.version /\ addr # dh_addr

\* mutant: an equal address is not recognised as matching
MatchesForNever(addr, dh_addr) == FALSE

\* lines 195-199: this address matches the entry
MatchesFor(addr, dh_addr) ==
    addr.version = dh_addr.version /\ addr = dh_addr

\* lines 190-206: the remove calls of one entry, and the indexes it appends
remove_old_records(entry, addrs) ==
    LET dh_addr == ip_address(entry.value)
        differing == SelectSeq(addrs, LAMBDA addr : RemovesFor(addr, dh_addr))
        equal == SelectSeq(addrs, LAMBDA addr : MatchesFor(addr, dh_addr))
    IN [removes |-> [i \in 1..Len(differing) |-> entry],
        matching |-> [i \in 1..Len(equal) |-> index(addrs, equal[i])]]

\* lines 216-217: the loop over target_records; a ValueError of
\* ip_address(entry["value"]) ends it
RECURSIVE EditablePass(_, _, _)
EditablePass(target_records, addrs, acc) ==
    IF target_records = <<>> THEN acc
    ELSE LET entry == Head(target_records)
         IN IF ip_address(entry.value) = InvalidAddress
            THEN [acc EXCEPT !.raised = TRUE]
            ELSE LET r == remove_old_records(entry, addrs)
                 IN EditablePass(Tail(target_records), addrs,
                                 [removes |-> acc.removes \o r.removes,
                                  matching |-> acc.matching \o r.matching,
                                  raised |-> FALSE])

(***************************************************************************)
(* Request parameters of the provider calls                                *)
(***************************************************************************)
\* lines 153: dns-list_records
ListCall(result) ==
    [cmd |-> "dns-list_records", record |-> "", type |-> "", value |-> "",
     editable |-> "", result |-> result]

\* lines 237-245: dns-remove_record carries record, type and value of the entry
RemoveCall(entry, result) ==
    [cmd |-> "dns-remove_record", record |-> entry.record, type |-> entry.type,
     value |-> entry.value, editable |-> entry.editable, result |-> result]

\* mutant: the two record types are swapped
RecordTypeSwapped(address) ==
    IF address.version = 4 THEN "AAAA"
    ELSE IF address.version = 6 THEN "A"
    ELSE "invalid"

\* lines 263-266: the record type of an address
RecordType(address) ==
    IF address.version = 4 THEN "A"
    ELSE IF address.version = 6 THEN "AAAA"
    ELSE "invalid"

\* lines 256-273: dns-add_record
AddCall(address, result) ==
    [cmd |-> "dns-add_record", record |-> local_hostname, type |-> RecordType(address),
     value |-> compressed(address), editable |-> "1", result |-> result]

(***************************************************************************)
(* The provider (behind http_access.request_get)                           *)
(***************************************************************************)
ProviderRemove(store, entry) ==
    SelectSeq(store, LAMBDA r : ~(r.record = entry.record /\ r.type = entry.type
                                  /\ r.value = entry.value /\ r.editable = "1"))

ProviderAdd(store, address) ==
    Append(store, [record |-> local_hostname, type |-> RecordType(address),
                   value |-> compressed(address), editable |-> "1"])

(***************************************************************************)
(* Initial state: setup_prev_addr_file, then dhdns.__init__                *)
(***************************************************************************)
\* the previous-address file: absent (the loopback defaults are written), or
\* left by an earlier run
SeedFiles == {<<"127.0.0.1", "::1">>, <<"1.2.3.4", "2001:db8::1">>}
ExternalTexts == {"5.6.7.8"}

Init ==
    /\ mode \in {"daemon", "single"}
    /\ use_external \in BOOLEAN
    /\ external_ip \in IF use_external THEN {ip_address(t) : t \in ExternalTexts}
                       ELSE {InvalidAddress}
    /\ prev_addr_file \in SeedFiles
    /\ global_v4 = prev_addr_file[1]
    /\ global_v6 = prev_addr_file[2]
    /\ previous_v4_address = ip_address(global_v4)
    /\ previous_v6_address = ip_address(global_v6)
    /\ prev_addresses = <<previous_v4_address, previous_v6_address>>
    /\ addresses \in {list \in AddressLists : Len(list) <= 1}
    /\ dns \in Listings
    /\ pc = "loop"
    /\ exit_code = -1
    /\ exit_reason = "running"
    /\ cycle = 0
    /\ polled = <<>>
    /\ desired = <<>>
    /\ listing = <<>>
    /\ calls = <<>>
    /\ remove_queue = <<>>
    /\ value_error = FALSE
    /\ matching_address_index = <<>>
    /\ add_index = 1

(***************************************************************************)
(* Process exit.  In the daemon loop a bare except catches SystemExit and  *)
(* every exception and ends the process with sys.exit(0); in a single run  *)
(* sys.exit(n) ends it with n and an uncaught exception with 1.            *)
(***************************************************************************)
ExitStatus(status) == IF mode = "daemon" THEN 0 ELSE status

Exits(status, reason) ==
    /\ pc' = "exited"
    /\ exit_code' = ExitStatus(status)
    /\ exit_reason' = reason

Running == UNCHANGED <<exit_code, exit_reason>>

(***************************************************************************)
(* update_if_necessary, up to the call of update_addresses                 *)
(***************************************************************************)
\* lines 99-101
EmptyAddresses ==
    /\ pc = "loop"
    /\ addresses = <<>>
    /\ Exits(8, "empty")
    /\ UNCHANGED <<mode, use_external, external_ip, global_v4, global_v6,
                   prev_addr_file, previous_v4_address, previous_v6_address,
                   prev_addresses, addresses, dns, cycle, polled, desired, listing, calls,
                   remove_queue, value_error, matching_address_index, add_index>>

\* mutant: the override is skipped
CurrentAddressesLocal(got) == got

\* lines 105-112
CurrentAddresses(got) ==
    IF use_external THEN ExternalOverride(got, external_ip) ELSE got

\* lines 105-148 with no change detected
NoChange ==
    /\ pc = "loop"
    /\ addresses # <<>>
    /\ \E got \in AddressLists :
        LET current == CurrentAddresses(got)
            d == DetectChanges(current, previous_v4_address, previous_v6_address)
        IN /\ ~(d.update_ipv6 \/ d.update_ipv4)
           /\ polled' = got
           /\ addresses' = current
           /\ desired' = current
    /\ calls' = <<>>
    /\ listing' = <<>>
    /\ pc' = "returned"
    /\ Running
    /\ UNCHANGED <<mode, use_external, external_ip, global_v4, global_v6,
                   prev_addr_file, previous_v4_address, previous_v6_address,
                   prev_addresses, dns, cycle, remove_queue, value_error,
                   matching_address_index, add_index>>

\* mutant: the cache keeps its address
UpdateCacheNever(previous, new) == previous

\* lines 137-143: a cache slot takes the new address when it differs
UpdateCache(previous, new) == IF previous # new THEN new ELSE previous

\* lines 105-145 with a change detected: the cache is set, the pass starts
ChangeDetected ==
    /\ pc = "loop"
    /\ addresses # <<>>
    /\ \E got \in AddressLists :
        LET current == CurrentAddresses(got)
            d == DetectChanges(current, previous_v4_address, previous_v6_address)
        IN /\ d.update_ipv6 \/ d.update_ipv4
           /\ polled' = got
           /\ addresses' = current
           /\ desired' = current
           /\ prev_addresses' = <<previous_v4_address, previous_v6_address>>
           /\ previous_v4_address' = UpdateCache(previous_v4_address, d.new_v4_address)
           /\ previous_v6_address' = UpdateCache(previous_v6_address, d.new_v6_address)
    /\ calls' = <<>>
    /\ listing' = <<>>
    /\ pc' = "list"
    /\ Running
    /\ UNCHANGED <<mode, use_external, external_ip, global_v4, global_v6,
                   prev_addr_file, dns, cycle, remove_queue, value_error,
                   matching_address_index, add_index>>

(***************************************************************************)
(* update_addresses: the reconciliation pass                               *)
(***************************************************************************)
Config == <<mode, use_external, external_ip, global_v4, global_v6>>
Cache == <<previous_v4_address, previous_v6_address, prev_addresses>>

\* mutant: the exception is swallowed and the loop goes on
RaisesSwallowed == pc' = "returned" /\ Running

\* an exception leaves update_if_necessary
Raises == Exits(1, "exception")

\* lines 153-156: the list call fails (transport error, no "data")
ListFails ==
    /\ pc = "list"
    /\ calls' = Append(calls, ListCall("transport"))
    /\ Raises
    /\ UNCHANGED <<Config, Cache, prev_addr_file, addresses, dns, cycle, polled,
                   desired, listing, remove_queue, value_error,
                   matching_address_index, add_index>>

\* lines 153-183 and 213-217: the list call answers; get_dh_dns_records
\* filters the listing and runs the read-only pass, and the editable pass
\* is laid out as the remove calls it issues
ListRecords ==
    /\ pc = "list"
    /\ calls' = Append(calls, ListCall("success"))
    /\ listing' = dns
    /\ LET got == get_dh_dns_records(dns, <<>>, addresses)
           plan == EditablePass(got.target_records, got.addresses,
                                [removes |-> <<>>, matching |-> <<>>, raised |-> FALSE])
       IN /\ addresses' = got.addresses
          /\ IF got.raised
             THEN /\ Raises
                  /\ UNCHANGED <<remove_queue, value_error, matching_address_index>>
             ELSE /\ pc' = "remove"
                  /\ Running
                  /\ remove_queue' = plan.removes
                  /\ value_error' = plan.raised
                  /\ matching_address_index' = plan.matching
    /\ UNCHANGED <<Config, Cache, prev_addr_file, dns, cycle, polled, desired,
                   add_index>>

\* mutant: a rejected remove call ends the remove loop
RemoveRecordStopsOnError ==
    /\ pc = "remove"
    /\ remove_queue # <<>>
    /\ \E result \in {"success", "error"} :
        /\ calls' = Append(calls, RemoveCall(Head(remove_queue), result))
        /\ dns' = IF result = "success" THEN ProviderRemove(dns, Head(remove_queue))
                  ELSE dns
        /\ remove_queue' = IF result = "success" THEN Tail(remove_queue) ELSE <<>>
    /\ Running
    /\ UNCHANGED <<Config, Cache, prev_addr_file, addresses, pc, cycle, polled,
                   desired, listing, value_error, matching_address_index, add_index>>

\* lines 230-247: one remove call, answered by the provider
RemoveRecord ==
    /\ pc = "remove"
    /\ remove_queue # <<>>
    /\ \E result \in {"success", "error"} :
        /\ calls' = Append(calls, RemoveCall(Head(remove_queue), result))
        /\ dns' = IF result = "success" THEN ProviderRemove(dns, Head(remove_queue))
                  ELSE dns
    /\ remove_queue' = Tail(remove_queue)
    /\ Running
    /\ UNCHANGED <<Config, Cache, prev_addr_file, addresses, pc, cycle, polled,
                   desired, listing, value_error, matching_address_index, add_index>>

\* line 245: the remove call fails at transport level
RemoveFails ==
    /\ pc = "remove"
    /\ remove_queue # <<>>
    /\ calls' = Append(calls, RemoveCall(Head(remove_queue), "transport"))
    /\ Raises
    /\ UNCHANGED <<Config, Cache, prev_addr_file, addresses, dns, cycle, polled,
                   desired, listing, remove_queue, value_error,
                   matching_address_index, add_index>>

\* line 190: ip_address(entry["value"]) raises ValueError
RemoveLoopRaises ==
    /\ pc = "remove"
    /\ remove_queue = <<>>
    /\ value_error
    /\ Raises
    /\ UNCHANGED <<Config, Cache, prev_addr_file, addresses, dns, cycle, polled,
                   desired, listing, calls, remove_queue, value_error,
                   matching_address_index, add_index>>

\* lines 218-221: the matched addresses leave the list
DeleteMatching ==
    /\ pc = "remove"
    /\ remove_queue = <<>>
    /\ ~value_error
    /\ LET d == DelEach(addresses, SortedReverse(matching_address_index))
       IN /\ addresses' = d.addresses
          /\ IF d.raised
             THEN Raises
             ELSE /\ pc' = "add"
                  /\ Running
    /\ add_index' = 1
    /\ UNCHANGED <<Config, Cache, prev_addr_file, dns, cycle, polled, desired,
                   listing, calls, remove_queue, value_error,
                   matching_address_index>>

\* mutant: addresses are added while the remove loop is still running
AddRecordInRemoveLoop ==
    /\ pc \in {"remove", "add"}
    /\ add_index <= Len(addresses)
    /\ \E result \in {"success", "error"} :
        /\ calls' = Append(calls, AddCall(addresses[add_index], result))
        /\ dns' = IF result = "success" THEN ProviderAdd(dns, addresses[add_index])
                  ELSE dns
    /\ add_index' = add_index + 1
    /\ Running
    /\ UNCHANGED <<Config, Cache, prev_addr_file, addresses, pc, cycle, polled,
                   desired, listing, remove_queue, value_error,
                   matching_address_index>>

\* lines 227-228 and 249-275: one add call, answered by the provider
AddRecord ==
    /\ pc = "add"
    /\ add_index <= Len(addresses)
    /\ \E result \in {"success", "error"} :
        /\ calls' = Append(calls, AddCall(addresses[add_index], result))
        /\ dns' = IF result = "success" THEN ProviderAdd(dns, addresses[add_index])
                  ELSE dns
    /\ add_index' = add_index + 1
    /\ Running
    /\ UNCHANGED <<Config, Cache, prev_addr_file, addresses, pc, cycle, polled,
                   desired, listing, remove_queue, value_error,
                   matching_address_index>>

\* line 273: the add call fails at transport level
AddFails ==
    /\ pc = "add"
    /\ add_index <= Len(addresses)
    /\ calls' = Append(calls, AddCall(addresses[add_index], "transport"))
    /\ Raises
    /\ UNCHANGED <<Config, Cache, prev_addr_file, addresses, dns, cycle, polled,
                   desired, listing, remove_queue, value_error,
                   matching_address_index, add_index>>

\* line 227: the add loop ends and update_if_necessary returns; the locals
\* of update_addresses are gone
PassReturns ==
    /\ pc = "add"
    /\ add_index > Len(addresses)
    /\ pc' = "returned"
    /\ Running
    /\ matching_address_index' = <<>>
    /\ add_index' = 1
    /\ UNCHANGED <<Config, Cache, prev_addr_file, addresses, dns, cycle, polled,
                   desired, listing, calls, remove_queue, value_error>>

(***************************************************************************)
(* main: the daemon loop and the single run                                *)
(***************************************************************************)
\* dhdynupdate.py lines 212-222: sleep, then the next iteration
Sleep ==
    /\ pc = "returned"
    /\ mode = "daemon"
    /\ cycle + 1 < MaxCycles
    /\ cycle' = cycle + 1
    /\ pc' = "loop"
    /\ Running
    /\ UNCHANGED <<Config, Cache, prev_addr_file, addresses, dns, polled, desired,
                   listing, calls, remove_queue, value_error,
                   matching_address_index, add_index>>

\* dhdynupdate.py lines 228-239: the file is rewritten when the cache
\* differs from the values loaded at startup; the process ends
SingleRunEnds ==
    /\ pc = "returned"
    /\ mode = "single"
    /\ prev_addr_file' =
          IF compressed(previous_v4_address) # global_v4
             \/ compressed(previous_v6_address) # global_v6
          THEN <<compressed(previous_v4_address), compressed(previous_v6_address)>>
          ELSE prev_addr_file
    /\ pc' = "exited"
    /\ exit_code' = 0
    /\ exit_reason' = "normal"
    /\ UNCHANGED <<Config, Cache, addresses, dns, cycle, polled, desired, listing,
                   calls, remove_queue, value_error, matching_address_index,
                   add_index>>

Next ==
    \/ EmptyAddresses
    \/ NoChange
    \/ ChangeDetected
    \/ ListFails
    \/ ListRecords
    \/ RemoveRecord
    \/ RemoveFails
    \/ RemoveLoopRaises
    \/ DeleteMatching
    \/ AddRecord
    \/ AddFails
    \/ PassReturns
    \/ Sleep
    \/ SingleRunEnds

Spec == Init /\ [][Next]_vars

(***************************************************************************)
(* Vocabulary of the properties                                            *)
(***************************************************************************)
Versions == {4, 6}

VersionOfText(text) == ip_address(text).version

HasVersion(list, v) == \E i \in 1..Len(list) : list[i].version = v

IsRemove(c) == c.cmd = "dns-remove_record"
IsAdd(c) == c.cmd = "dns-add_record"

\* the call is a remove call for this listed record
RemoveOf(c, entry) ==
    /\ IsRemove(c)
    /\ c.record = entry.record /\ c.type = entry.type /\ c.value = entry.value

\* a pass ran in this cycle and update_if_necessary returned from it
PassCompleted == pc = "returned" /\ calls # <<>>

\* the listing holds a read-only record of the configured hostname of version v
ReadOnlyListed(v) ==
    \E i \in 1..Len(listing) :
        IsReadOnlyOfHost(listing[i]) /\ VersionOfText(listing[i].value) = v

\* the slot of the cache for version v
CacheSlot(v) == IF v = 4 THEN previous_v4_address ELSE previous_v6_address

(***************************************************************************)
(* C1  Stale removal: in every completed pass whose listing holds an       *)
(* editable record of the configured hostname with an IP version that has  *)
(* no address in the desired set, a remove call is issued for that record  *)
(* and no add call is issued for that version.                             *)
(* The code issues a remove only from inside the loop over the desired     *)
(* addresses of the same version, so the statement is violated.            *)
(***************************************************************************)
C1_StaleRemoval ==
    PassCompleted =>
        \A i \in 1..Len(listing) :
            LET entry == listing[i]
                v == VersionOfText(entry.value)
            IN (IsTargetRecord(entry) /\ v \in Versions /\ ~HasVersion(desired, v)) =>
                  /\ \E k \in 1..Len(calls) : RemoveOf(calls[k], entry)
                  /\ \A k \in 1..Len(calls) :
                        IsAdd(calls[k]) => VersionOfText(calls[k].value) # v

(***************************************************************************)
(* C2  No-op idempotence: a run of update_if_necessary in which every      *)
(* address of the current set equals the cache slot of its version issues  *)
(* no provider call and leaves the cache unchanged.                        *)
(***************************************************************************)
C2_NoOpIdempotence ==
    [][(/\ pc = "loop"
        /\ pc' \in {"list", "returned"}
        /\ \A i \in 1..Len(desired') : desired'[i] = CacheSlot(desired'[i].version))
       => (/\ pc' = "returned"
           /\ calls' = <<>>
           /\ previous_v4_address' = previous_v4_address
           /\ previous_v6_address' = previous_v6_address)]_vars

\* a cycle with a cached IPv4 and IPv6 address, both current, returned
\* without a provider call
C2_Witness ==
    /\ pc = "returned"
    /\ calls = <<>>
    /\ HasVersion(desired, 4) /\ HasVersion(desired, 6)
    /\ \A i \in 1..Len(desired) : desired[i] = CacheSlot(desired[i].version)

(***************************************************************************)
(* C3  Order invariant: within a pass no add call for a version precedes   *)
(* a remove call for a record of the same version.                         *)
(***************************************************************************)
C3_RemoveBeforeAdd ==
    \A i, j \in 1..Len(calls) :
        (/\ IsAdd(calls[i]) /\ IsRemove(calls[j])
         /\ VersionOfText(calls[i].value) = VersionOfText(calls[j].value))
        => j < i

\* a pass issued a remove and then an add for the same version
C3_Witness ==
    \E i, j \in 1..Len(calls) :
        /\ IsRemove(calls[i]) /\ IsAdd(calls[j])
        /\ VersionOfText(calls[i].value) = VersionOfText(calls[j].value)
        /\ i < j

(***************************************************************************)
(* C4  Read-only records are never mutated: every remove call is issued    *)
(* for a record the listing holds with its editable flag set.              *)
(***************************************************************************)
C4_ReadOnlyNeverRemoved ==
    \A k \in 1..Len(calls) :
        IsRemove(calls[k]) =>
            /\ calls[k].editable = "1"
            /\ \E i \in 1..Len(listing) :
                  listing[i].editable = "1" /\ RemoveOf(calls[k], listing[i])

\* a pass whose listing holds a read-only record of the hostname, of the
\* version of a differing desired address, issued a remove call
C4_Witness ==
    /\ \E k \in 1..Len(calls) : IsRemove(calls[k])
    /\ \E i \in 1..Len(listing), j \in 1..Len(desired) :
          /\ listing[i].editable = "0"
          /\ listing[i].record = local_hostname
          /\ VersionOfText(listing[i].value) = desired[j].version
          /\ ip_address(listing[i].value) # desired[j]

(***************************************************************************)
(* C5  Read-only suppression: when the listing holds a read-only record of *)
(* the configured hostname of version V and the desired set holds an       *)
(* address of version V with another value, no add call is issued for any  *)
(* address of version V.                                                   *)
(* The read-only pass deletes the collected indexes in ascending order, so *)
(* with two addresses of version V one of them can survive and is added.   *)
(***************************************************************************)
C5_ReadOnlySuppression ==
    \A v \in Versions :
        (/\ \E i \in 1..Len(listing), j \in 1..Len(desired) :
               /\ IsReadOnlyOfHost(listing[i])
               /\ VersionOfText(listing[i].value) = v
               /\ desired[j].version = v
               /\ desired[j] # ip_address(listing[i].value))
        => \A k \in 1..Len(calls) :
               IsAdd(calls[k]) => VersionOfText(calls[k].value) # v

(***************************************************************************)
(* C6  Replace-on-change, as claimed: in a completed pass whose listing    *)
(* holds an editable A record X of the configured hostname while the       *)
(* desired set holds an IPv4 address Y other than X, exactly one remove    *)
(* call is issued for the X record, followed by exactly one add call for Y *)
(* with type A, and no call concerns an AAAA record of the listing.        *)
(* Violated: a desired IPv6 address replaces a differing AAAA record in    *)
(* the same pass, and an editable A record with value Y keeps Y from       *)
(* being added.                                                            *)
(***************************************************************************)
RemoveCallsOf(entry) == {k \in 1..Len(calls) : RemoveOf(calls[k], entry)}

AddCallsOf(address) ==
    {k \in 1..Len(calls) :
        /\ IsAdd(calls[k])
        /\ calls[k].type = "A"
        /\ calls[k].record = local_hostname
        /\ calls[k].value = compressed(address)}

\* no remove or add call carries the name, type and value of a listed AAAA record
NoCallOnListedAAAA ==
    \A k \in 1..Len(calls), m \in 1..Len(listing) :
        listing[m].type = "AAAA" =>
            ~(/\ IsRemove(calls[k]) \/ IsAdd(calls[k])
              /\ calls[k].record = listing[m].record
              /\ calls[k].type = "AAAA"
              /\ calls[k].value = listing[m].value)

\* one remove call for the record, then one add call for the address
ReplacedBy(entry, address) ==
    /\ Cardinality(RemoveCallsOf(entry)) = 1
    /\ Cardinality(AddCallsOf(address)) = 1
    /\ \A r \in RemoveCallsOf(entry), a \in AddCallsOf(address) : r < a

\* listing[i] is an editable A record of the hostname and desired[j] an
\* IPv4 address with another value
ChangedARecord(i, j) ==
    /\ IsTargetRecord(listing[i])
    /\ listing[i].type = "A"
    /\ desired[j].version = 4
    /\ desired[j] # ip_address(listing[i].value)

C6_Case(i) ==
    /\ PassCompleted
    /\ Len(desired) = 1
    /\ ChangedARecord(i, 1)
    /\ \A m \in 1..Len(listing) :
          /\ (m # i /\ IsTargetRecord(listing[m])) =>
                /\ listing[m] # listing[i]
                /\ ip_address(listing[m].value) # desired[1]
          /\ IsReadOnlyOfHost(listing[m]) => VersionOfText(listing[m].value) # 4

OnlyV4Changed ==
    /\ calls # <<>>
    /\ \E j \in 1..Len(desired) :
          desired[j].version = 4 /\ desired[j] # prev_addresses[1]
    /\ HasVersion(desired, 6)
    /\ \A j \in 1..Len(desired) :
          desired[j].version = 6 => desired[j] = prev_addresses[2]

\* listing[i] is an editable AAAA record of the hostname whose value is the
\* current IPv6 address
MatchingAAAA(i) ==
    /\ IsTargetRecord(listing[i])
    /\ VersionOfText(listing[i].value) = 6
    /\ ip_address(listing[i].value) = prev_addresses[2]

\* a cycle returns without a pass only when every current address equals its
\* cache slot
PassUnlessEqual ==
    (pc = "returned" /\ calls = <<>>) =>
        \A j \in 1..Len(desired) : desired[j] = CacheSlot(desired[j].version)

NoCallForVersion(v) ==
    \A k \in 1..Len(calls) :
        (IsRemove(calls[k]) \/ IsAdd(calls[k])) => VersionOfText(calls[k].value) # v

C7_VersionIndependence ==
    /\ PassUnlessEqual
    /\ (OnlyV4Changed /\ \E i \in 1..Len(listing) : MatchingAAAA(i))
          => NoCallForVersion(6)

(***************************************************************************)
(* C7 amended: when a cycle finds the IPv4 address changed and the IPv6    *)
(* address unchanged, a pass runs, and if its listing holds an editable    *)
(* AAAA record of the hostname with the current IPv6 address as value, the *)
(* pass issues no remove call for that record and no add call for IPv6.    *)
(***************************************************************************)
C7_VersionIndependenceAmended ==
    /\ PassUnlessEqual
    /\ \A i \in 1..Len(listing) :
          (OnlyV4Changed /\ MatchingAAAA(i)) =>
              /\ RemoveCallsOf(listing[i]) = {}
              /\ \A k \in 1..Len(calls) :
                    IsAdd(calls[k]) => VersionOfText(calls[k].value) # 6

\* such a pass completed and wrote for IPv4
C7_Witness ==
    /\ PassCompleted
    /\ OnlyV4Changed
    /\ \E i \in 1..Len(listing) : MatchingAAAA(i)
    /\ \E k \in 1..Len(calls) : IsAdd(calls[k]) /\ calls[k].type = "A"

(***************************************************************************)
(* C8  Single add on first run: in a cycle that starts from the loopback   *)
(* sentinels, with exactly one IPv4 address as desired set and a listing   *)
(* without a record of the configured hostname, no remove call is issued,  *)
(* every add call is of type A with the address as value, and the          *)
(* completed cycle has issued exactly one add call.                        *)
(***************************************************************************)
C8_Case ==
    /\ calls # <<>>
    /\ calls[1].result = "success"
    /\ prev_addresses = <<ip_address("127.0.0.1"), ip_address("::1")>>
    /\ Len(desired) = 1
    /\ desired[1].version = 4
    /\ \A m \in 1..Len(listing) : listing[m].record # local_hostname

C8_SingleAddOnFirstRun ==
    C8_Case =>
        /\ \A k \in 1..Len(calls) : ~IsRemove(calls[k])
        /\ \A k \in 1..Len(calls) :
              IsAdd(calls[k]) =>
                  /\ k = 2
                  /\ calls[k].type = "A"
                  /\ calls[k].record = local_hostname
                  /\ calls[k].value = compressed(desired[1])
        /\ pc = "returned" => Len(calls) = 2 /\ IsAdd(calls[2])

\* the first cycle of such a process returned after its add call
C8_Witness ==
    /\ C8_Case
    /\ pc = "returned"
    /\ cycle = 0
    /\ Len(listing) > 0
    /\ Len(calls) = 2 /\ IsAdd(calls[2])

(***************************************************************************)
(* C9  Convergence: after a completed pass in which every provider call    *)
(* succeeded, for each IP version V with an address in the desired set and *)
(* no read-only record of the hostname in the listing, the values of the   *)
(* provider's editable records of the hostname of version V are exactly    *)
(* the desired address of version V.  Stated for desired sets with at most *)
(* one address per version.                                                *)
(* Violated: two editable records with the value of a desired address put  *)
(* the same index twice into matching_address_index, and the second        *)
(* deletion drops another desired address, which is then never added.      *)
(***************************************************************************)
DesiredOf(v) == {desired[j] : j \in {j \in 1..Len(desired) : desired[j].version = v}}

OnePerVersion == \A v \in Versions : Cardinality(DesiredOf(v)) <= 1

AllCallsSucceeded == \A k \in 1..Len(calls) : calls[k].result = "success"

\* the addresses the provider's editable records of the hostname hold for v
ProviderValues(v) ==
    {ip_address(dns[m].value) :
        m \in {m \in 1..Len(dns) :
                  IsTargetRecord(dns[m]) /\ VersionOfText(dns[m].value) = v}}

C9_Convergence ==
    (PassCompleted /\ AllCallsSucceeded /\ OnePerVersion) =>
        \A v \in Versions :
            (DesiredOf(v) # {} /\ ~ReadOnlyListed(v)) => ProviderValues(v) = DesiredOf(v)

(***************************************************************************)
(* C10  Transport failure, as claimed: after a provider call failed at     *)
(* transport level no further call of the pass is issued, the cache holds  *)
(* the newly observed addresses, and the process is still running, so that *)
(* its next poll cycle can find no change.                                 *)
(* Violated: the exception leaves update_if_necessary and ends the         *)
(* process (the daemon loop's bare except calls sys.exit(0)).              *)
(***************************************************************************)
TransportFailed == calls # <<>> /\ calls[Len(calls)].result = "transport"

\* the failed call is the last one of the pass
AbortedAtFailure ==
    \A k \in 1..Len(calls) : calls[k].result = "transport" => k = Len(calls)

\* every version the cycle observed has an observed address in its slot
CacheHoldsObserved ==
    \A v \in Versions :
        HasVersion(desired, v) => \E j \in 1..Len(desired) : desired[j] = CacheSlot(v)

PlanOf(records, addrs) ==
    LET got == get_dh_dns_records(records, <<>>, addrs)
        plan == EditablePass(got.target_records, got.addresses,
                             [removes |-> <<>>, matching |-> <<>>, raised |-> FALSE])
        kept == DelEach(got.addresses, SortedReverse(plan.matching))
    IN [removes |-> IF got.raised THEN <<>> ELSE plan.removes,
        adds |-> IF got.raised \/ plan.raised \/ kept.raised THEN <<>>
                 ELSE kept.addresses,
        raised |-> got.raised \/ plan.raised \/ kept.raised]

\* the calls of that pass, every one of them answered with success
PlannedCalls(records, addrs) ==
    LET plan == PlanOf(records, addrs)
    IN <<ListCall("success")>>
       \o [i \in 1..Len(plan.removes) |-> RemoveCall(plan.removes[i], "success")]
       \o [i \in 1..Len(plan.adds) |-> AddCall(plan.adds[i], "success")]

\* the call log with every answer replaced by success
AsSucceeded(log) == [k \in 1..Len(log) |-> [log[k] EXCEPT !.result = "success"]]

IsPrefix(s, t) == Len(s) <= Len(t) /\ s = SubSeq(t, 1, Len(s))

Rejected(c) == (IsRemove(c) \/ IsAdd(c)) /\ c.result = "error"

C11_RejectionRecoverable ==
    (calls # <<>> /\ calls[1].result = "success") =>
        /\ IsPrefix(AsSucceeded(calls), PlannedCalls(listing, desired))
        /\ PassCompleted =>
              /\ AsSucceeded(calls) = PlannedCalls(listing, desired)
              /\ CacheHoldsObserved
        /\ (pc = "exited" /\ exit_reason = "exception") =>
              TransportFailed \/ PlanOf(listing, desired).raised

\* a pass whose remove call and whose first add call were rejected went on
\* to a second add call and returned
C11_Witness ==
    /\ PassCompleted
    /\ \E i, j, k \in 1..Len(calls) :
          /\ i < j /\ j < k
          /\ IsRemove(calls[i]) /\ Rejected(calls[i])
          /\ IsAdd(calls[j]) /\ Rejected(calls[j])
          /\ IsAdd(calls[k])

(***************************************************************************)
(* C12  Persisted state follows the cache: in both run modes, whenever a   *)
(* poll cycle is about to start or the process has ended normally, the two *)
(* lines of the previous-address file are the cached IPv4 and IPv6         *)
(* addresses.                                                              *)
(* Violated: the daemon loop calls update_if_necessary and sleeps; only    *)
(* the single run writes the file after its cycle.                         *)
(***************************************************************************)
\* the text of the cache as the file holds it
CacheText == <<compressed(previous_v4_address), compressed(previous_v6_address)>>

C12_PersistedFollowsCache ==
    (pc = "loop" \/ (pc = "exited" /\ exit_reason = "normal")) =>
        prev_addr_file = CacheText

(***************************************************************************)
(* C13  Distinct exit codes for fatal conditions: in both run modes a      *)
(* process that ended on the empty-address condition has exit status 8,    *)
(* and a process that ended normally has a status other than 8 and 7.      *)
(* (The invalid-family exit of add_record is not reachable: every address  *)
(* is an ipaddress object of version 4 or 6.)                              *)
(* Violated: in the daemon loop the bare except catches the SystemExit of  *)
(* sys.exit(8) and ends the process with sys.exit(0).                      *)
(***************************************************************************)
C13_DistinctExitCodes ==
    pc = "exited" =>
        /\ exit_reason = "empty" => exit_code = 8
        /\ exit_reason = "normal" => exit_code \notin {7, 8}

(***************************************************************************)
(* C14  Hostname isolation: every remove call carries the configured       *)
(* hostname as record name, and the calls of a pass are the ones the       *)
(* listing without the records of other hostnames determines: a record of  *)
(* another hostname neither suppresses a desired address nor keeps it from *)
(* being added.                                                            *)
(***************************************************************************)
\* the records of the listing that carry the configured hostname
OwnRecords(records) == SelectSeq(records, LAMBDA entry : entry.record = local_hostname)

C14_HostnameIsolation ==
    /\ \A k \in 1..Len(calls) : IsRemove(calls[k]) => calls[k].record = local_hostname
    /\ (calls # <<>> /\ calls[1].result = "success") =>
          /\ IsPrefix(AsSucceeded(calls), PlannedCalls(OwnRecords(listing), desired))
          /\ PassCompleted =>
                AsSucceeded(calls) = PlannedCalls(OwnRecords(listing), desired)

\* a pass whose listing holds, for another hostname, an editable A record
\* with the value of a desired address and a read-only A record, added that
\* address
C14_Witness ==
    /\ PassCompleted
    /\ \E i, m \in 1..Len(listing), j \in 1..Len(desired), k \in 1..Len(calls) :
          /\ listing[i].record = other_hostname /\ listing[i].editable = "1"
          /\ ip_address(listing[i].value) = desired[j]
          /\ listing[m].record = other_hostname /\ listing[m].editable = "0"
          /\ VersionOfText(listing[m].value) = desired[j].version
          /\ IsAdd(calls[k]) /\ calls[k].value = compressed(desired[j])

(***************************************************************************)
(* C15  The empty-address fatal condition depends only on the current      *)
(* cycle: a process ends on the empty-address condition only when the      *)
(* address source's latest answer was an empty set.                        *)
(* Violated: the check of line 99 reads self.interface.addresses before    *)
(* the cycle polls the source, that is the list the previous pass left     *)
(* after deleting the suppressed and the matched addresses.                *)
(***************************************************************************)
C15_EmptyOnlyWhenSourceEmpty ==
    (pc = "exited" /\ exit_reason = "empty") => polled = <<>>

(***************************************************************************)
(* C16  Add pass completeness and exactness: in every completed pass an    *)
(* address of the desired set receives exactly one add call if and only if *)
(* the listing holds no read-only record of the hostname of its IP version *)
(* and no editable record of the hostname with an equal value.  Stated for *)
(* desired sets that hold no address twice.                                *)
(* Violated: two editable records with the value of a desired address put  *)
(* its index twice into matching_address_index; the second deletion drops  *)
(* another desired address, which has no matching record and gets no add   *)
(* call.                                                                   *)
(***************************************************************************)
AddCallsFor(address) ==
    {k \in 1..Len(calls) :
        /\ IsAdd(calls[k])
        /\ calls[k].record = local_hostname
        /\ calls[k].value = compressed(address)}

\* the listing holds an editable record of the hostname with this address
EditableListed(address) ==
    \E i \in 1..Len(listing) :
        IsTargetRecord(listing[i]) /\ ip_address(listing[i].value) = address

C16_AddPassExact ==
    (PassCompleted /\ NoRepeat(desired)) =>
        \A j \in 1..Len(desired) :
            (Cardinality(AddCallsFor(desired[j])) = 1)
            <=> (~ReadOnlyListed(desired[j].version) /\ ~EditableListed(desired[j]))

(***************************************************************************)
(* C17  Reconcile idempotence: after a completed pass in which every       *)
(* provider call succeeded, a second pass with the same desired set        *)
(* against the provider's records as they now are issues no remove call    *)
(* and no add call.                                                        *)
(***************************************************************************)
\* a pass with this desired set against these records writes nothing
WritesNothing(records, addrs) ==
    PlanOf(records, addrs).removes = <<>> /\ PlanOf(records, addrs).adds = <<>>

C17_ReconcileIdempotence ==
    (PassCompleted /\ AllCallsSucceeded) => WritesNothing(dns, desired)

(***************************************************************************)
(* C18  The cache is updated before the pass: in a cycle that detected a   *)
(* change, when the list call is about to be issued and for the rest of    *)
(* the pass, the cache slot of every changed version holds a newly         *)
(* observed address of that version, other than the previous one, and the  *)
(* slot of every unchanged version holds its previous value.               *)
(***************************************************************************)
\* the slot of version v before the change was detected
PreviousSlot(v) == IF v = 4 THEN prev_addresses[1] ELSE prev_addresses[2]

\* the cycle observed an address of version v other than the cached one
ChangedVersion(v) ==
    \E j \in 1..Len(desired) : desired[j].version = v /\ desired[j] # PreviousSlot(v)

C18_CacheUpdatedBeforePass ==
    pc \in {"list", "remove", "add"} =>
        /\ \E v \in Versions : ChangedVersion(v)
        /\ \A v \in Versions :
              IF ChangedVersion(v)
              THEN CacheSlot(v) \in DesiredOf(v) /\ CacheSlot(v) # PreviousSlot(v)
              ELSE CacheSlot(v) = PreviousSlot(v)

\* the list call is about to be issued after an IPv4 change, the observed
\* IPv6 address being the cached one
C18_Witness ==
    /\ pc = "list"
    /\ calls = <<>>
    /\ ChangedVersion(4) /\ ~ChangedVersion(6)
    /\ HasVersion(desired, 6)
    /\ previous_v4_address = desired[1]
    /\ previous_v4_address # prev_addresses[1]

(***************************************************************************)
(* C19  Read-only suppression of several addresses: in a pass whose        *)
(* desired set holds more than one address of IP version V and whose       *)
(* listing holds a read-only record of the hostname of version V (every    *)
(* read-only record of the hostname carrying an address), the read-only    *)
(* pass completes without an exception, the working list after it holds    *)
(* exactly the desired addresses whose version has no read-only record,    *)
(* and no add call is issued for version V.                                *)
(* Violated: the indexes collected for the read-only record are deleted in *)
(* ascending order, so every deletion shifts the addresses behind it: an   *)
(* address of version V survives, an address of the other version is       *)
(* dropped, or the deletion raises IndexError.                             *)
(***************************************************************************)
\* every read-only record of the hostname in the listing carries an address
ReadOnlyAreAddresses ==
    \A i \in 1..Len(listing) :
        IsReadOnlyOfHost(listing[i]) => VersionOfText(listing[i].value) \in Versions

\* the list call of the pass was answered, with several desired addresses of
\* version v and a read-only record of that version
SeveralSuppressed(v) ==
    /\ calls # <<>> /\ calls[1].result = "success"
    /\ Cardinality(DesiredOf(v)) > 1
    /\ ReadOnlyListed(v)
    /\ ReadOnlyAreAddresses

C19_SuppressionOfSeveral ==
    \A v \in Versions :
        SeveralSuppressed(v) =>
            /\ ~get_dh_dns_records(listing, <<>>, desired).raised
            /\ pc = "remove" =>
                  addresses = SelectSeq(desired, LAMBDA a : ~ReadOnlyListed(a.version))
            /\ \A k \in 1..Len(calls) :
                  IsAdd(calls[k]) => VersionOfText(calls[k].value) # v

(***************************************************************************)
(* C20  Cache slot invariant: with seeds of the right versions, in every   *)
(* reachable state the IPv4 slot of the cache holds a version-4 address    *)
(* and the IPv6 slot a version-6 address; a run of update_if_necessary     *)
(* whose current address set has no address of version V leaves the slot   *)
(* of V unchanged, and one whose set has exactly one address of version V  *)
(* leaves that address in the slot of V.                                   *)
(***************************************************************************)
SeedsOfRightVersions ==
    VersionOfText(global_v4) = 4 /\ VersionOfText(global_v6) = 6

SlotsOfRightVersions ==
    previous_v4_address.version = 4 /\ previous_v6_address.version = 6

\* the addresses of version v in a list
OfVersion(list, v) == SelectSeq(list, LAMBDA a : a.version = v)

\* update_if_necessary polled the source in this step
PollStep == pc = "loop" /\ pc' \in {"list", "returned"}

SlotFollowsPoll(v, slot, slotAfter) ==
    /\ OfVersion(desired', v) = <<>> => slotAfter = slot
    /\ Len(OfVersion(desired', v)) = 1 => slotAfter = OfVersion(desired', v)[1]

C20_CacheSlotInvariant ==
    /\ [](SeedsOfRightVersions => SlotsOfRightVersions)
    /\ [][PollStep =>
            /\ SlotFollowsPoll(4, previous_v4_address, previous_v4_address')
            /\ SlotFollowsPoll(6, previous_v6_address, previous_v6_address')]_vars

\* a cycle without an IPv6 address stored a new IPv4 address and left the
\* seeded IPv6 address in its slot
C20_Witness ==
    /\ pc \in {"list", "returned"}
    /\ cycle = 1
    /\ Len(desired) = 1
    /\ previous_v4_address = desired[1]
    /\ previous_v4_address # prev_addresses[1]
    /\ previous_v6_address = ip_address("2001:db8::1")
    /\ global_v6 = "2001:db8::1"

(***************************************************************************)
(* C21  External-IP override: with external-IP mode enabled, in every      *)
(* cycle the address set that is compared with the cache is the polled one *)
(* with each IPv4 address replaced by the external address and each IPv6   *)
(* address left as it is; a cycle that compared an IPv4 address and found  *)
(* no change has the external address in the IPv4 slot, the IPv4 slot      *)
(* holds its seed or the external address, and every add call of type A    *)
(* carries the external address.                                           *)
(***************************************************************************)
\* position by position, the compared set is the polled one with the IPv4
\* addresses replaced by ext
OverriddenBy(ext) ==
    /\ Len(desired) = Len(polled)
    /\ \A i \in 1..Len(polled) :
          desired[i] = IF polled[i].version = 4 THEN ext ELSE polled[i]

C21_ExternalOverride ==
    use_external =>
        /\ OverriddenBy(external_ip)
        /\ (pc = "returned" /\ calls = <<>> /\ HasVersion(desired, 4)) =>
              previous_v4_address = external_ip
        /\ previous_v4_address \in {ip_address(global_v4), external_ip}
        /\ \A k \in 1..Len(calls) :
              (IsAdd(calls[k]) /\ calls[k].type = "A") =>
                  calls[k].value = compressed(external_ip)

\* in external-IP mode a cycle that polled a local IPv4 address other than
\* the external one, and an IPv6 address, cached and added the external
\* address and added the IPv6 address as polled
C21_Witness ==
    /\ use_external
    /\ PassCompleted
    /\ \E i, j \in 1..Len(polled) :
          /\ polled[i].version = 4 /\ polled[i] # external_ip
          /\ polled[j].version = 6
          /\ \E k \in 1..Len(calls) :
                IsAdd(calls[k]) /\ calls[k].value = compressed(polled[j])
    /\ previous_v4_address = external_ip
    /\ previous_v4_address # prev_addresses[1]
    /\ \E k \in 1..Len(calls) :
          IsAdd(calls[k]) /\ calls[k].type = "A"
          /\ calls[k].value = compressed(external_ip)

(***************************************************************************)
(* C22  The external address is fixed for the lifetime of the process, as  *)
(* claimed: in external-IP mode the external address never changes after   *)
(* construction; a run of update_if_necessary changes the IPv4 slot only   *)
(* to the external address and never once the slot holds it, so an IPv4    *)
(* change is detected in at most one cycle; and that cycle is the first    *)
(* one in which the cached IPv4 address differs from the external address. *)
(* Violated in its last part: a cycle whose address set holds no IPv4      *)
(* address compares nothing with the IPv4 slot, so the slot can differ     *)
(* from the external address in a cycle that detects no IPv4 change; the   *)
(* change is detected in a later cycle.                                    *)
(***************************************************************************)
\* the IPv4 slot changes only to ext, and not at all once it holds ext
ChangesOnceTo(ext) ==
    /\ previous_v4_address' # previous_v4_address => previous_v4_address' = ext
    /\ previous_v4_address = ext => previous_v4_address' = ext

C22_ExternalFixed ==
    /\ [][external_ip' = external_ip]_vars
    /\ [][(use_external /\ PollStep) =>
             /\ ChangesOnceTo(external_ip)
             /\ previous_v4_address # external_ip =>
                   previous_v4_address' = external_ip]_vars

(***************************************************************************)
(* C22 amended: in external-IP mode the external address never changes     *)
(* after construction; a run of update_if_necessary changes the IPv4 slot  *)
(* only to the external address and never once the slot holds it, so an    *)
(* IPv4 change is detected in at most one cycle; and that cycle is the     *)
(* first one whose address set holds an IPv4 address while the cached IPv4 *)
(* address differs from the external address.                              *)
(***************************************************************************)
C22_ExternalFixedAmended ==
    /\ [][external_ip' = external_ip]_vars
    /\ [][(use_external /\ PollStep) =>
             /\ ChangesOnceTo(external_ip)
             /\ (previous_v4_address # external_ip /\ HasVersion(desired', 4)) =>
                   previous_v4_address' = external_ip
             /\ ~HasVersion(desired', 4) =>
                   previous_v4_address' = previous_v4_address]_vars

\* the second cycle of a process in external-IP mode polled a local IPv4
\* address and found no change, the first cycle having cached the external
\* address in place of the seed
C22_Witness ==
    /\ use_external
    /\ cycle = 1
    /\ pc = "returned"
    /\ calls = <<>>
    /\ \E i \in 1..Len(polled) : polled[i].version = 4 /\ polled[i] # external_ip
    /\ previous_v4_address = external_ip
    /\ prev_addresses[1] # external_ip

====
